---- MODULE Spec2Model ----
(***************************************************************************)
(* Budget visualization: the event store of BudgetAPI (src/api.py), the    *)
(* recurrence expander, the event aggregator and the timeline builder,     *)
(* driven by the HTTP handlers of src/server.py.                           *)
(*                                                                         *)
(* Representation                                                          *)
(*   - a datetime is a record [year, month, day] (every datetime the code  *)
(*     builds is at midnight);                                             *)
(*   - a date string is a record [year, month, day, time]: time = FALSE is *)
(*     the text "YYYY-MM-DD", time = TRUE the text "YYYY-MM-DDT00:00:00",  *)
(*     which datetime.fromisoformat parses to the same datetime; NoneStr   *)
(*     is Python's None (SQL NULL);                                        *)
(*   - amounts and balances are exact decimals counted in thousandths, so  *)
(*     round(x, 2) is a rounding to a multiple of 10.                      *)
(***************************************************************************)
EXTENDS Integers, Sequences, FiniteSets, TLC

VARIABLES
    events,        \* table account_events: id -> row
    event_labels,  \* table event_labels: set of <<event_id, label_name>>
    last_id,       \* highest id the table ever handed out
    req,           \* the request being answered
    resp,          \* the response to it
    exp_event,     \* expand_recurring_event: argument event
    exp_window,    \* expand_recurring_event: arguments start_date, end_date
    exp_result,    \* expand_recurring_event: what the call produced
    exp_loop       \* expand_recurring_event: the loop it is in, current, occurrences

vars == <<events, event_labels, last_id, req, resp, exp_event, exp_window, exp_result, exp_loop>>

----------------------------------------------------------------------------
(* Bounds of the model *)

\* rows the table account_events may hold at once, and the largest id
MaxEvents == 2
\* the store's dates are BaseDay .. BaseDay + MaxDay
MaxDay == 2

----------------------------------------------------------------------------
(* datetime and date strings *)

NoneStr == [year |-> 0, month |-> 0, day |-> 0, time |-> FALSE]

DT(y, m, d) == [year |-> y, month |-> m, day |-> d]

\* the text "YYYY-MM-DD" ("T00:00:00" follows it when time is TRUE)
Plain(y, m, d) == [year |-> y, month |-> m, day |-> d, time |-> FALSE]

\* datetime.fromisoformat on a date string
FromIsoFormat(s) == DT(s.year, s.month, s.day)

\* datetime.strftime('%Y-%m-%d')
StrFTime(dt) == [year |-> dt.year, month |-> dt.month, day |-> dt.day, time |-> FALSE]

\* a < b on datetimes
Before(a, b) ==
    \/ a.year < b.year
    \/ a.year = b.year /\ a.month < b.month
    \/ a.year = b.year /\ a.month = b.month /\ a.day < b.day

\* a <= b on datetimes
NotAfter(a, b) == ~Before(b, a)

\* Python's min on two datetimes
MinDT(a, b) == IF Before(b, a) THEN b ELSE a

\* a < b on the texts of two date strings (a plain date is a prefix of the
\* same date with a time)
StrLess(a, b) ==
    \/ Before(FromIsoFormat(a), FromIsoFormat(b))
    \/ FromIsoFormat(a) = FromIsoFormat(b) /\ ~a.time /\ b.time

IsLeap(year) == year % 4 = 0 /\ (year % 100 # 0 \/ year % 400 = 0)

\* the month-length list the code indexes with month - 1
DaysInMonth(year, month) ==
    <<31, IF IsLeap(year) THEN 29 ELSE 28, 31, 30, 31, 30, 31, 31, 30, 31, 30, 31>>[month]

Min(a, b) == IF a < b THEN a ELSE b

\* dt + timedelta(days=1)
NextDay(dt) ==
    IF dt.day < DaysInMonth(dt.year, dt.month) THEN DT(dt.year, dt.month, dt.day + 1)
    ELSE IF dt.month < 12 THEN DT(dt.year, dt.month + 1, 1)
    ELSE DT(dt.year + 1, 1, 1)

\* days of the year before the first of month
DaysBeforeMonth(year, month) ==
    <<0, 31, 59, 90, 120, 151, 181, 212, 243, 273, 304, 334>>[month]
    + (IF month > 2 /\ IsLeap(year) THEN 1 ELSE 0)

\* datetime.toordinal: 0001-01-01 is day 1
ToOrdinal(dt) ==
    LET y == dt.year - 1
    IN  365 * y + (y \div 4) - (y \div 100) + (y \div 400)
        + DaysBeforeMonth(dt.year, dt.month) + dt.day

\* datetime.fromordinal
FromOrdinal(n) ==
    LET InMonth(year, month) == DT(year, month, n - ToOrdinal(DT(year, month, 1)) + 1)
        InYear(year) ==
            InMonth(year, CHOOSE m \in 1..12 :
                             /\ ToOrdinal(DT(year, m, 1)) <= n
                             /\ n <= ToOrdinal(DT(year, m, DaysInMonth(year, m))))
    IN  InYear(CHOOSE y \in (n \div 366)..((n \div 365) + 1) :
                  /\ ToOrdinal(DT(y, 1, 1)) <= n
                  /\ n < ToOrdinal(DT(y + 1, 1, 1)))

\* dt + timedelta(days=n)
AddDays(dt, n) == FromOrdinal(ToOrdinal(dt) + n)

----------------------------------------------------------------------------
(* Calendar math: the advancement of the cursor, api.py 216-242 (the same  *)
(* code stands at 174-200 in the fast-forward loop)                        *)

KnownPatterns == {"daily", "weekly", "biweekly", "monthly", "quarterly", "yearly"}

\* the month sum renormalised without the carry into the year
AddMonthsNoCarry(current, months) ==
    LET month == ((current.month + months - 1) % 12) + 1
    IN  DT(current.year, month, Min(current.day, DaysInMonth(current.year, month)))

\* month = current.month + k; year, month renormalised; day clamped
AddMonths(current, months) ==
    LET month0 == current.month + months
        year   == current.year + ((month0 - 1) \div 12)
        month  == ((month0 - 1) % 12) + 1
    IN  DT(year, month, Min(current.day, DaysInMonth(year, month)))

AddYears(current, years) ==
    LET year == current.year + years
    IN  DT(year, current.month, Min(current.day, DaysInMonth(year, current.month)))

\* with a negative step the cursor only moves to earlier dates, both loop
\* conditions stay true, and the date arithmetic ends by leaving datetime's
\* range: OverflowError (timedelta) or ValueError (datetime(0, ...))
StepRaises(pattern, interval) ==
    pattern \in (KnownPatterns \ {"biweekly"}) /\ interval < 0

NextOccurrence(current, pattern, interval) ==
    CASE pattern = "daily"     -> AddDays(current, interval)
      [] pattern = "weekly"    -> AddDays(current, 7 * interval)
      [] pattern = "biweekly"  -> AddDays(current, 14)
      [] pattern = "monthly"   -> AddMonths(current, interval)
      [] pattern = "quarterly" -> AddMonths(current, 3 * interval)
      [] pattern = "yearly"    -> AddYears(current, interval)

\* the if/elif chain with a pattern it does not know advanced by a day
AdvanceUnknownAsDaily(current, pattern, interval) ==
    IF StepRaises(pattern, interval) THEN [kind |-> "raise", current |-> current]
    ELSE IF pattern \in KnownPatterns
    THEN [kind |-> "next", current |-> NextOccurrence(current, pattern, interval)]
    ELSE [kind |-> "next", current |-> NextDay(current)]

\* the if/elif chain: the next cursor, "break" on a pattern it does not know,
\* "raise" when the step can only end in an exception
Advance(current, pattern, interval) ==
    IF pattern \notin KnownPatterns THEN [kind |-> "break", current |-> current]
    ELSE IF StepRaises(pattern, interval) THEN [kind |-> "raise", current |-> current]
    ELSE [kind |-> "next", current |-> NextOccurrence(current, pattern, interval)]

----------------------------------------------------------------------------
(* Recurrence expander: BudgetAPI.expand_recurring_event *)

Occurrence(id, amount, date, is_recurring, labels) ==
    [id |-> id, amount |-> amount, date |-> date,
     is_recurring |-> is_recurring, labels |-> labels]

NoDT == DT(0, 0, 0)

ExpandRaised == [raised |-> TRUE, current |-> NoDT, occurrences |-> <<>>]

\* event['recurrence_interval'] or 1
EffectiveInterval(event) ==
    IF event.recurrence_interval = 0 THEN 1 ELSE event.recurrence_interval

\* rec_end: the event's recurrence_end, or end_date when it has none
RecEnd(event, end_date) ==
    IF event.recurrence_end # NoneStr THEN FromIsoFormat(event.recurrence_end) ELSE end_date

\* the first loop: returns the cursor it ends on, or NoDT when it raises
RECURSIVE FastForward(_, _, _, _, _)
FastForward(current, start_date, rec_end, pattern, interval) ==
    IF Before(current, start_date) /\ NotAfter(current, rec_end)
    THEN LET Continue(step) ==
                 CASE step.kind = "next" ->
                        FastForward(step.current, start_date, rec_end, pattern, interval)
                   [] step.kind = "break" -> current
                   [] step.kind = "raise" -> NoDT
         IN  Continue(Advance(current, pattern, interval))
    ELSE current

\* whether the second loop appends an occurrence at the cursor
EmitsAt(current, start_date) == NotAfter(start_date, current)

\* the emission bound without the clip to the window
EmitBoundRecEndOnly(rec_end, end_date) == rec_end

\* the bound of the second loop: min(rec_end, end_date)
EmitBound(rec_end, end_date) == MinDT(rec_end, end_date)

\* the second loop: the occurrences appended and the cursor it ends on
RECURSIVE Emit(_, _, _, _, _, _, _, _)
Emit(event, labels, current, occurrences, start_date, bound, pattern, interval) ==
    IF NotAfter(current, bound)
    THEN LET occs == IF EmitsAt(current, start_date)
                     THEN Append(occurrences,
                                 Occurrence(event.id, event.amount, StrFTime(current),
                                            TRUE, labels))
                     ELSE occurrences
             Continue(step) ==
                 CASE step.kind = "next" ->
                        Emit(event, labels, step.current, occs, start_date, bound,
                             pattern, interval)
                   [] step.kind = "break" ->
                        [raised |-> FALSE, current |-> current, occurrences |-> occs]
                   [] step.kind = "raise" -> ExpandRaised
         IN  Continue(Advance(current, pattern, interval))
    ELSE [raised |-> FALSE, current |-> current, occurrences |-> occurrences]

\* event: a row with its id; labels: event['labels']
ExpandRecurringEvent(event, labels, start_date, end_date) ==
    IF event.recurrence_start = NoneStr
    THEN ExpandRaised    \* fromisoformat(None): TypeError
    ELSE LET rec_start == FromIsoFormat(event.recurrence_start)
             rec_end   == RecEnd(event, end_date)
             pattern   == event.recurrence_pattern
             interval  == EffectiveInterval(event)
             SecondLoop(cursor) ==
                 IF cursor = NoDT THEN ExpandRaised
                 ELSE Emit(event, labels, cursor, <<>>, start_date,
                           EmitBound(rec_end, end_date), pattern, interval)
         IN  SecondLoop(FastForward(rec_start, start_date, rec_end, pattern, interval))

----------------------------------------------------------------------------
(* Event aggregator: BudgetAPI.get_events_in_range *)

\* event['labels']: the label rows of the event's id
LabelsOf(labs, id) == {l \in {p[2] : p \in labs} : <<id, l>> \in labs}

\* the filter test with AND in place of OR
PassesFilterAll(labels, label_filter) ==
    label_filter = {} \/ \A l \in label_filter : l \in labels

\* no filter, or any(label in event['labels'] for label in label_filter)
PassesFilter(labels, label_filter) ==
    label_filter = {} \/ \E l \in label_filter : l \in labels

\* the window test of a one-off event with the start boundary excluded
InWindowOpenStart(event_dt, start_dt, end_dt) ==
    Before(start_dt, event_dt) /\ NotAfter(event_dt, end_dt)

\* start_dt <= event_dt <= end_dt
InWindow(event_dt, start_dt, end_dt) ==
    NotAfter(start_dt, event_dt) /\ NotAfter(event_dt, end_dt)

\* what one event contributes: [raised, occurrences]
EventOccurrences(event, labels, start_dt, end_dt) ==
    IF event.is_recurring
    THEN LET Expanded(r) == [raised |-> r.raised, occurrences |-> r.occurrences]
         IN  Expanded(ExpandRecurringEvent(event, labels, start_dt, end_dt))
    ELSE IF event.event_date # NoneStr
              /\ InWindow(FromIsoFormat(event.event_date), start_dt, end_dt)
         THEN [raised |-> FALSE,
               occurrences |-> <<Occurrence(event.id, event.amount, event.event_date,
                                            FALSE, labels)>>]
         ELSE [raised |-> FALSE, occurrences |-> <<>>]

\* the loop over the rows, in id order; an exception ends it
RECURSIVE CollectFrom(_, _, _, _, _, _, _)
CollectFrom(id, evs, labs, start_dt, end_dt, label_filter, acc) ==
    IF id > MaxEvents THEN [raised |-> FALSE, occurrences |-> acc]
    ELSE IF id \notin DOMAIN evs \/ ~PassesFilter(LabelsOf(labs, id), label_filter)
    THEN CollectFrom(id + 1, evs, labs, start_dt, end_dt, label_filter, acc)
    ELSE LET Extend(r) ==
                 IF r.raised THEN [raised |-> TRUE, occurrences |-> <<>>]
                 ELSE CollectFrom(id + 1, evs, labs, start_dt, end_dt, label_filter,
                                  acc \o r.occurrences)
         IN  Extend(EventOccurrences(evs[id], LabelsOf(labs, id), start_dt, end_dt))

\* list.sort(key=lambda x: x['date']): stable, by the text of the date
RECURSIVE InsertByDate(_, _)
InsertByDate(sorted, x) ==
    IF sorted = <<>> THEN <<x>>
    ELSE LET last == sorted[Len(sorted)]
         IN  IF StrLess(x.date, last.date)
             THEN Append(InsertByDate(SubSeq(sorted, 1, Len(sorted) - 1), x), last)
             ELSE Append(sorted, x)

RECURSIVE SortByDate(_)
SortByDate(occs) ==
    IF occs = <<>> THEN <<>>
    ELSE InsertByDate(SortByDate(SubSeq(occs, 1, Len(occs) - 1)), occs[Len(occs)])

GetEventsInRange(evs, labs, start_date, end_date, label_filter) ==
    LET Sorted(r) ==
            IF r.raised THEN r
            ELSE [raised |-> FALSE, occurrences |-> SortByDate(r.occurrences)]
    IN  Sorted(CollectFrom(1, evs, labs, FromIsoFormat(start_date),
                           FromIsoFormat(end_date), label_filter, <<>>))

----------------------------------------------------------------------------
(* Timeline builder: BudgetAPI.calculate_balance_timeline *)

\* round(x, 2) of a decimal counted in thousandths; a tie goes to the even cent
Round2(x) ==
    LET q == x \div 10
        r == x % 10
    IN  IF r < 5 THEN 10 * q
        ELSE IF r > 5 THEN 10 * (q + 1)
        ELSE IF q % 2 = 0 THEN 10 * q ELSE 10 * (q + 1)

\* the amounts of events_by_date[date_str], added in list order
RECURSIVE ApplyEvents(_, _, _)
ApplyEvents(occs, date_str, balance) ==
    IF occs = <<>> THEN balance
    ELSE ApplyEvents(Tail(occs), date_str,
                     IF Head(occs).date = date_str THEN balance + Head(occs).amount
                     ELSE balance)

\* the day walk with the last day left out
WalkContinuesExclusive(current_date, end_dt) == Before(current_date, end_dt)

\* while current_date <= end_dt
WalkContinues(current_date, end_dt) == NotAfter(current_date, end_dt)

\* the day walk: [timeline, balance]
RECURSIVE Walk(_, _, _, _, _)
Walk(current_date, end_dt, occs, current_balance, timeline) ==
    IF WalkContinues(current_date, end_dt)
    THEN LET date_str == StrFTime(current_date)
             balance  == ApplyEvents(occs, date_str, current_balance)
         IN  Walk(NextDay(current_date), end_dt, occs, balance,
                  Append(timeline, [date |-> date_str, balance |-> Round2(balance)]))
    ELSE [timeline |-> timeline, balance |-> current_balance]

NoResult ==
    [timeline |-> <<>>, events |-> <<>>, starting_balance |-> 0, ending_balance |-> 0]

\* [raised, result]
CalculateBalanceTimeline(evs, labs, start_date, end_date, starting_balance, label_filter) ==
    LET Answer(occs, walked) ==
            [raised |-> FALSE,
             result |-> [timeline |-> walked.timeline,
                         events |-> occs,
                         starting_balance |-> starting_balance,
                         ending_balance |-> Round2(walked.balance)]]
        Timeline(r) ==
            IF r.raised THEN [raised |-> TRUE, result |-> NoResult]
            ELSE Answer(r.occurrences,
                        Walk(FromIsoFormat(start_date), FromIsoFormat(end_date),
                             r.occurrences, starting_balance, <<>>))
    IN  Timeline(GetEventsInRange(evs, labs, start_date, end_date, label_filter))

----------------------------------------------------------------------------
(* The requests the handlers of server.py are driven with *)

BaseDay == DT(2025, 1, 1)

Day(k) == AddDays(BaseDay, k)

PlainDay(k) == StrFTime(Day(k))

TimedDay(k) == [PlainDay(k) EXCEPT !.time = TRUE]

\* float(params.get('starting_balance', ['1000.00'])[0]), in thousandths
DefaultStartingBalance == 1000000

LabelFilters == {{}, {"fixed", "other"}, {"other"}}

Row(id, amount, event_date, is_recurring, pattern, interval, rec_start, rec_end) ==
    [id |-> id, amount |-> amount, event_date |-> event_date,
     is_recurring |-> is_recurring, recurrence_pattern |-> pattern,
     recurrence_interval |-> interval, recurrence_start |-> rec_start,
     recurrence_end |-> rec_end]

AddInput(row, labels) == [row |-> row, labels |-> labels]

\* POST /api/events with event_date alone: "2025-01-02", "2025-01-02T00:00:00"
\* and the last day of the range
OneOffInputs ==
    { AddInput(Row(0, -50000, PlainDay(1), FALSE, "None", 1, NoneStr, NoneStr),
               {"rent", "fixed"}),
      AddInput(Row(0, 1004, TimedDay(1), FALSE, "None", 1, NoneStr, NoneStr), {}),
      AddInput(Row(0, 1004, PlainDay(MaxDay), FALSE, "None", 1, NoneStr, NoneStr), {}) }

\* POST /api/events with is_recurring and the recurrence fields; "fortnightly"
\* is a pattern the expander does not know
RecurringInputs ==
    { AddInput(Row(0, 1004, NoneStr, TRUE, "daily", 1, PlainDay(0), NoneStr),
               {"rent", "fixed"}),
      AddInput(Row(0, 1004, NoneStr, TRUE, "daily", 1, PlainDay(1), PlainDay(1)), {}),
      AddInput(Row(0, -50000, NoneStr, TRUE, "fortnightly", 1, PlainDay(1), NoneStr),
               {}) }

\* POST /api/events with neither date, with no recurrence_start, with both dates
OddInputs ==
    { AddInput(Row(0, -50000, NoneStr, FALSE, "None", 1, NoneStr, NoneStr), {}),
      AddInput(Row(0, 1004, NoneStr, TRUE, "daily", 0, NoneStr, NoneStr), {}),
      AddInput(Row(0, 1004, PlainDay(1), TRUE, "daily", 1, PlainDay(0), NoneStr), {}) }

AddInputs == OneOffInputs \cup RecurringInputs \cup OddInputs

\* PUT /api/events/<id>: the keyword arguments handle_update_event passes
UpdateInputs ==
    { [event_date |-> NoneStr],
      [labels |-> {}] }

\* GET /api/timeline: start_date and end_date are any two days of the range
WindowDays == {PlainDay(k) : k \in 0..MaxDay}

----------------------------------------------------------------------------
(* The store: add_event, update_event, delete_event *)

MaxOf(S) == IF S = {} THEN 0 ELSE CHOOSE x \in S : \A y \in S : y <= x

\* cursor.lastrowid of the INSERT: one more than the largest id in the table,
\* or, for an AUTOINCREMENT key, one more than the largest id ever handed out
\* (schema.sql decides which)
NewIds(evs, last) == {MaxOf(DOMAIN evs) + 1, last + 1}

NoRequest ==
    [op |-> "none", start_date |-> NoneStr, end_date |-> NoneStr,
     starting_balance |-> 0, label_filter |-> {}]

StoreRequest(op) == [NoRequest EXCEPT !.op = op]

NoResponse == [status |-> "none", result |-> NoResult, event_id |-> 0]

SuccessResponse(id) == [status |-> "ok", result |-> NoResult, event_id |-> id]

NoExpandEvent == Row(0, 0, NoneStr, FALSE, "None", 0, NoneStr, NoneStr)

NoExpandWindow == [start_date |-> NoDT, end_date |-> NoDT]

NoExpandResult ==
    [called |-> FALSE, raised |-> FALSE, current |-> NoDT, occurrences |-> <<>>]

\* pc: "none" (no call under way), "start", "fast_forward", "emit", "done",
\* "raised"
NoExpandLoop == [pc |-> "none", current |-> NoDT, occurrences |-> <<>>]

ExpandIdle ==
    /\ exp_event = NoExpandEvent
    /\ exp_window = NoExpandWindow
    /\ exp_result = NoExpandResult
    /\ exp_loop = NoExpandLoop

\* handle_add_event -> add_event
AddEvent(row, labels) ==
    \E id \in NewIds(events, last_id) :
        /\ id <= MaxEvents
        /\ events' = [i \in DOMAIN events \cup {id} |->
                        IF i = id THEN [row EXCEPT !.id = id] ELSE events[i]]
        /\ event_labels' = event_labels \cup {<<id, l>> : l \in labels}
        /\ last_id' = IF id > last_id THEN id ELSE last_id
        /\ req' = StoreRequest("add_event")
        /\ resp' = SuccessResponse(id)
        /\ UNCHANGED <<exp_event, exp_window, exp_result, exp_loop>>

\* the row after UPDATE ... SET <the allowed fields of kwargs>
UpdatedRow(row, kwargs) ==
    LET Val(f) == IF f \in DOMAIN kwargs THEN kwargs[f] ELSE row[f]
    IN  Row(row.id, Val("amount"), Val("event_date"), Val("is_recurring"),
            Val("recurrence_pattern"), Val("recurrence_interval"),
            Val("recurrence_start"), Val("recurrence_end"))

\* handle_update_event -> update_event; an id with no row updates nothing but
\* still has its label rows replaced
UpdateEvent(event_id, kwargs) ==
    /\ events' = [i \in DOMAIN events |->
                    IF i = event_id THEN UpdatedRow(events[i], kwargs) ELSE events[i]]
    /\ event_labels' =
          IF "labels" \in DOMAIN kwargs
          THEN {p \in event_labels : p[1] # event_id}
               \cup {<<event_id, l>> : l \in kwargs.labels}
          ELSE event_labels
    /\ req' = StoreRequest("update_event")
    /\ resp' = SuccessResponse(0)
    /\ UNCHANGED <<last_id, exp_event, exp_window, exp_result, exp_loop>>

\* handle_delete_event -> delete_event: the row goes, its label rows stay
DeleteEvent(event_id) ==
    /\ events' = [i \in DOMAIN events \ {event_id} |-> events[i]]
    /\ req' = StoreRequest("delete_event")
    /\ resp' = SuccessResponse(0)
    /\ UNCHANGED <<event_labels, last_id, exp_event, exp_window, exp_result, exp_loop>>

\* get_all_labels: SELECT DISTINCT label_name FROM event_labels
GetAllLabels(labs) == {p[2] : p \in labs}

\* get_labels_with_counts: COUNT(*) of the label rows, GROUP BY label_name
GetLabelsWithCounts(labs) ==
    [l \in GetAllLabels(labs) |-> Cardinality({p \in labs : p[2] = l})]

\* handle_get_timeline -> calculate_balance_timeline; an exception leaves the
\* request without a response body
GetTimeline(start_date, end_date, starting_balance, label_filter) ==
    \E r \in {CalculateBalanceTimeline(events, event_labels, start_date, end_date,
                                         starting_balance, label_filter)} :
        /\ req' = [op |-> "timeline", start_date |-> start_date, end_date |-> end_date,
                   starting_balance |-> starting_balance, label_filter |-> label_filter]
        /\ resp' = [status |-> IF r.raised THEN "exception" ELSE "ok",
                    result |-> r.result, event_id |-> 0]
        /\ UNCHANGED <<events, event_labels, last_id, exp_event, exp_window, exp_result, exp_loop>>

Init ==
    /\ events = <<>>
    /\ event_labels = {}
    /\ last_id = 0
    /\ req = NoRequest
    /\ resp = NoResponse
    /\ ExpandIdle

Next ==
    \/ \E in \in AddInputs : AddEvent(in.row, in.labels)
    \/ \E id \in 1..MaxEvents, kwargs \in UpdateInputs : UpdateEvent(id, kwargs)
    \/ \E id \in 1..MaxEvents : DeleteEvent(id)
    \/ \E s \in WindowDays, e \in WindowDays, f \in LabelFilters :
          GetTimeline(s, e, DefaultStartingBalance, f)

Spec == Init /\ [][Next]_vars

----------------------------------------------------------------------------
(* expand_recurring_event on its own: the arguments are drawn, the call is  *)
(* made once                                                                *)

\* the largest recurrence_interval drawn
MaxInterval == 2

ExpandCase(pattern, interval, rec_start, rec_end, window) ==
    [event |-> Row(1, 1004, NoneStr, TRUE, pattern, interval, rec_start, rec_end),
     window |-> window]

Window(start_date, end_date) == [start_date |-> start_date, end_date |-> end_date]

\* the day-counted patterns, over two weeks around the leap day
DayCases ==
    {ExpandCase(p, i, s, e, w) :
        p \in {"daily", "weekly", "biweekly", "fortnightly", "None"},
        i \in -1..MaxInterval,
        s \in {Plain(2024, 2, 20), Plain(2024, 2, 27)},
        e \in {NoneStr, Plain(2024, 3, 1), Plain(2024, 3, 20)},
        w \in {Window(DT(2024, 2, 25), DT(2024, 3, 10)),
               Window(DT(2024, 3, 1), DT(2024, 2, 25))}}

\* the month-counted patterns, over four months and over a year
MonthCases ==
    {ExpandCase(p, i, s, e, w) :
        p \in {"monthly", "quarterly", "yearly", "fortnightly"},
        i \in -1..MaxInterval,
        s \in {Plain(2024, 1, 31), Plain(2024, 2, 29), Plain(2023, 12, 15)},
        e \in {NoneStr, Plain(2024, 3, 31), Plain(2024, 6, 30)},
        w \in {Window(DT(2024, 1, 1), DT(2024, 4, 30)),
               Window(DT(2024, 2, 15), DT(2025, 3, 1))}}

ExpandCases == DayCases \cup MonthCases

StoreIdle ==
    /\ events = <<>>
    /\ event_labels = {}
    /\ last_id = 0
    /\ req = NoRequest
    /\ resp = NoResponse

InitExpand ==
    /\ StoreIdle
    /\ \E c \in ExpandCases : exp_event = c.event /\ exp_window = c.window
    /\ exp_result = NoExpandResult
    /\ exp_loop = NoExpandLoop

ExpandCall ==
    /\ ~exp_result.called
    /\ \E r \in {ExpandRecurringEvent(exp_event, {}, exp_window.start_date,
                                        exp_window.end_date)} :
           exp_result' = [called |-> TRUE, raised |-> r.raised, current |-> r.current,
                          occurrences |-> r.occurrences]
    /\ UNCHANGED <<events, event_labels, last_id, req, resp, exp_event, exp_window, exp_loop>>

NextExpand == ExpandCall

SpecExpand == InitExpand /\ [][NextExpand]_vars

----------------------------------------------------------------------------
(* expand_recurring_event loop by loop: one action per pass of a while     *)
(* loop, its test included                                                 *)

\* while current < start_date and current <= rec_end
FastForwardContinues(current, start_date, rec_end) ==
    Before(current, start_date) /\ NotAfter(current, rec_end)

\* while current <= min(rec_end, end_date)
EmitContinues(current, rec_end, end_date) ==
    NotAfter(current, EmitBound(rec_end, end_date))

LoopRecEnd == RecEnd(exp_event, exp_window.end_date)

LoopRaise ==
    /\ exp_loop' = [exp_loop EXCEPT !.pc = "raised"]
    /\ exp_result' = [called |-> TRUE, raised |-> TRUE, current |-> NoDT,
                      occurrences |-> <<>>]

\* return occurrences
LoopReturn(current, occurrences) ==
    /\ exp_loop' = [pc |-> "done", current |-> current, occurrences |-> occurrences]
    /\ exp_result' = [called |-> TRUE, raised |-> FALSE, current |-> current,
                      occurrences |-> occurrences]

InitLoop ==
    /\ StoreIdle
    /\ \E c \in ExpandCases : exp_event = c.event /\ exp_window = c.window
    /\ exp_result = NoExpandResult
    /\ exp_loop = [pc |-> "start", current |-> NoDT, occurrences |-> <<>>]

\* occurrences = []; rec_start, rec_end; current = rec_start
LoopStart ==
    /\ exp_loop.pc = "start"
    /\ IF exp_event.recurrence_start = NoneStr
       THEN LoopRaise    \* fromisoformat(None): TypeError
       ELSE /\ exp_loop' = [pc |-> "fast_forward",
                            current |-> FromIsoFormat(exp_event.recurrence_start),
                            occurrences |-> <<>>]
            /\ UNCHANGED exp_result
    /\ UNCHANGED <<events, event_labels, last_id, req, resp, exp_event, exp_window>>

\* one pass of the first loop; leaving it, by its test or by break, enters
\* the second
FastForwardStep ==
    /\ exp_loop.pc = "fast_forward"
    /\ IF FastForwardContinues(exp_loop.current, exp_window.start_date, LoopRecEnd)
       THEN \E step \in {Advance(exp_loop.current, exp_event.recurrence_pattern,
                                  EffectiveInterval(exp_event))} :
               CASE step.kind = "next" ->
                      /\ exp_loop' = [exp_loop EXCEPT !.current = step.current]
                      /\ UNCHANGED exp_result
                 [] step.kind = "break" ->
                      /\ exp_loop' = [exp_loop EXCEPT !.pc = "emit"]
                      /\ UNCHANGED exp_result
                 [] step.kind = "raise" -> LoopRaise
       ELSE /\ exp_loop' = [exp_loop EXCEPT !.pc = "emit"]
            /\ UNCHANGED exp_result
    /\ UNCHANGED <<events, event_labels, last_id, req, resp, exp_event, exp_window>>

\* one pass of the second loop; leaving it, by its test or by break, returns
EmitStep ==
    /\ exp_loop.pc = "emit"
    /\ IF EmitContinues(exp_loop.current, LoopRecEnd, exp_window.end_date)
       THEN \E occs \in {IF EmitsAt(exp_loop.current, exp_window.start_date)
                          THEN Append(exp_loop.occurrences,
                                      Occurrence(exp_event.id, exp_event.amount,
                                                 StrFTime(exp_loop.current), TRUE, {}))
                          ELSE exp_loop.occurrences},
               step \in {Advance(exp_loop.current, exp_event.recurrence_pattern,
                                  EffectiveInterval(exp_event))} :
               CASE step.kind = "next" ->
                      /\ exp_loop' = [exp_loop EXCEPT !.current = step.current,
                                                      !.occurrences = occs]
                      /\ UNCHANGED exp_result
                 [] step.kind = "break" -> LoopReturn(exp_loop.current, occs)
                 [] step.kind = "raise" -> LoopRaise
       ELSE LoopReturn(exp_loop.current, exp_loop.occurrences)
    /\ UNCHANGED <<events, event_labels, last_id, req, resp, exp_event, exp_window>>

NextLoop == LoopStart \/ FastForwardStep \/ EmitStep

\* the call runs on until it returns or raises
SpecLoop == InitLoop /\ [][NextLoop]_vars /\ WF_vars(NextLoop)

----------------------------------------------------------------------------
(* Properties *)

\* the response on hand is a timeline computed from the store as it stands
\* (every store operation replaces the response)
TimelineAnswered == req.op = "timeline"

TimelineReturned == TimelineAnswered /\ resp.status = "ok"

WindowStart == FromIsoFormat(req.start_date)

WindowEnd == FromIsoFormat(req.end_date)

ValidWindow == NotAfter(WindowStart, WindowEnd)

\* (b - a).days
DaysBetween(a, b) == ToOrdinal(b) - ToOrdinal(a)

RECURSIVE SumAmounts(_)
SumAmounts(occs) ==
    IF occs = <<>> THEN 0 ELSE Head(occs).amount + SumAmounts(Tail(occs))

OccurrencesOf(id, occs) == SelectSeq(occs, LAMBDA o : o.id = id)

OccurrencesNotOf(id, occs) == SelectSeq(occs, LAMBDA o : o.id # id)

MatchesFilter(id) ==
    req.label_filter = {} \/ LabelsOf(event_labels, id) \cap req.label_filter # {}

\* C1: for a valid window the ending balance returned equals the starting
\* balance plus the sum of the amounts of the occurrences returned, summed
\* independently of the day walk and compared at the two decimals the response
\* carries: every returned occurrence is applied exactly once.
C1_EndingBalanceIsSumOfOccurrences ==
    (TimelineReturned /\ ValidWindow) =>
        resp.result.ending_balance
            = Round2(req.starting_balance + SumAmounts(resp.result.events))

\* C2: for a valid window the timeline has (windowEnd - windowStart).days + 1
\* points, the i-th of them dated windowStart + (i - 1) days: one point per
\* calendar day, consecutive, whether or not an occurrence falls on the day.
C2_OnePointPerDay ==
    (TimelineReturned /\ ValidWindow) =>
        LET timeline == resp.result.timeline
        IN  /\ Len(timeline) = DaysBetween(WindowStart, WindowEnd) + 1
            /\ \A i \in 1..Len(timeline) :
                  timeline[i].date = StrFTime(FromOrdinal(ToOrdinal(WindowStart) + i - 1))

\* a window of several days, no occurrence in it, a point for every day
C2_Witness ==
    /\ TimelineReturned
    /\ Before(WindowStart, WindowEnd)
    /\ resp.result.events = <<>>
    /\ Len(resp.result.timeline) = DaysBetween(WindowStart, WindowEnd) + 1
    /\ Len(resp.result.timeline) >= 3

\* C3: the event that recurs monthly from 2024-01-31 with interval 1, expanded
\* over [2024-01-01, 2024-04-30], occurs exactly on 2024-01-31, 2024-02-29,
\* 2024-03-31 and 2024-04-30: the clamp is taken against the original day.
C3_MonthlyClampsAgainstOriginalDay ==
    ( /\ exp_result.called
      /\ exp_event.recurrence_pattern = "monthly"
      /\ exp_event.recurrence_interval = 1
      /\ exp_event.recurrence_start = Plain(2024, 1, 31)
      /\ exp_event.recurrence_end = NoneStr
      /\ exp_window = Window(DT(2024, 1, 1), DT(2024, 4, 30)) ) =>
        /\ ~exp_result.raised
        /\ [i \in 1..Len(exp_result.occurrences) |-> exp_result.occurrences[i].date]
              = <<Plain(2024, 1, 31), Plain(2024, 2, 29),
                  Plain(2024, 3, 31), Plain(2024, 4, 30)>>

\* C4: a non-recurring event that passes the label filter (or with no filter)
\* has exactly one occurrence in the list returned when
\* windowStart <= eventDate <= windowEnd, and none otherwise.
C4_OneOffIffInWindow ==
    TimelineReturned =>
        \A id \in DOMAIN events :
            (~events[id].is_recurring /\ MatchesFilter(id)) =>
                Len(OccurrencesOf(id, resp.result.events))
                    = IF /\ events[id].event_date # NoneStr
                         /\ NotAfter(WindowStart, FromIsoFormat(events[id].event_date))
                         /\ NotAfter(FromIsoFormat(events[id].event_date), WindowEnd)
                      THEN 1 ELSE 0

\* a one-off event dated on the first day of a longer window, returned once
C4_Witness ==
    /\ TimelineReturned
    /\ Before(WindowStart, WindowEnd)
    /\ \E id \in DOMAIN events :
          /\ ~events[id].is_recurring
          /\ events[id].event_date = req.start_date
          /\ Len(OccurrencesOf(id, resp.result.events)) = 1

\* the end the expander may not pass: min(recurrenceEnd, windowEnd), or
\* windowEnd for an event with no recurrenceEnd
EffectiveEnd(event, window_end) ==
    IF event.recurrence_end = NoneStr THEN window_end
    ELSE MinDT(FromIsoFormat(event.recurrence_end), window_end)

\* C5: every occurrence expand_recurring_event produces is dated d with
\* windowStart <= d <= effectiveEnd and recurrenceStart <= d.
C5_OccurrencesWithinBounds ==
    exp_result.called =>
        \A i \in 1..Len(exp_result.occurrences) :
            LET d == FromIsoFormat(exp_result.occurrences[i].date)
            IN  /\ NotAfter(exp_window.start_date, d)
                /\ NotAfter(d, EffectiveEnd(exp_event, exp_window.end_date))
                /\ NotAfter(FromIsoFormat(exp_event.recurrence_start), d)

\* an event with no recurrenceEnd that started before the window: several
\* occurrences, the last of them on windowEnd itself
C5_Witness ==
    /\ exp_result.called
    /\ exp_event.recurrence_end = NoneStr
    /\ Before(FromIsoFormat(exp_event.recurrence_start), exp_window.start_date)
    /\ Len(exp_result.occurrences) >= 2
    /\ exp_result.occurrences[Len(exp_result.occurrences)].date
          = StrFTime(exp_window.end_date)

\* C6: a timeline request with windowStart > windowEnd is rejected: no
\* timeline, occurrence list or ending balance is returned for it.
C6_InvalidWindowRejected ==
    (TimelineAnswered /\ Before(WindowEnd, WindowStart)) => resp.status # "ok"

\* C7: no event is stored with isRecurring set and either no recurrenceStart
\* or recurrenceInterval <= 0.
C7_NoInvalidRecurrenceStored ==
    \A id \in DOMAIN events :
        events[id].is_recurring =>
            /\ events[id].recurrence_start # NoneStr
            /\ events[id].recurrence_interval > 0

\* C8: a recurring event with a recurrenceStart and a pattern outside the six
\* known ones halts the expansion without an error: the cursor stays on
\* recurrenceStart, the only occurrence is the one at recurrenceStart, and only
\* when recurrenceStart lies in [windowStart, effectiveEnd]; the request is
\* answered exactly when it would be without the event, with the occurrences
\* of the other events and a timeline of the same days.
C8_UnknownPatternHalts ==
    TimelineAnswered =>
        \A id \in DOMAIN events :
            ( /\ events[id].is_recurring
              /\ events[id].recurrence_pattern \notin KnownPatterns
              /\ events[id].recurrence_start # NoneStr ) =>
                LET labels == LabelsOf(event_labels, id)
                    start  == FromIsoFormat(events[id].recurrence_start)
                    x      == ExpandRecurringEvent(events[id], labels,
                                                   WindowStart, WindowEnd)
                    others == CalculateBalanceTimeline(
                                  [i \in DOMAIN events \ {id} |-> events[i]],
                                  event_labels, req.start_date, req.end_date,
                                  req.starting_balance, req.label_filter)
                IN  /\ ~x.raised
                    /\ x.current = start
                    /\ x.occurrences =
                          IF /\ NotAfter(WindowStart, start)
                             /\ NotAfter(start, EffectiveEnd(events[id], WindowEnd))
                          THEN <<Occurrence(id, events[id].amount, StrFTime(start),
                                            TRUE, labels)>>
                          ELSE <<>>
                    /\ resp.status = IF others.raised THEN "exception" ELSE "ok"
                    /\ resp.status = "ok" =>
                          /\ OccurrencesNotOf(id, resp.result.events)
                                = others.result.events
                          /\ OccurrencesOf(id, resp.result.events)
                                = IF MatchesFilter(id) THEN x.occurrences ELSE <<>>
                          /\ Len(resp.result.timeline) = Len(others.result.timeline)

\* an event of unknown pattern returned once, at its recurrenceStart, beside an
\* occurrence of another event
C8_Witness ==
    /\ TimelineReturned
    /\ \E id \in DOMAIN events :
          /\ events[id].is_recurring
          /\ events[id].recurrence_pattern \notin KnownPatterns
          /\ events[id].recurrence_start # NoneStr
          /\ Before(FromIsoFormat(events[id].recurrence_start), WindowEnd)
          /\ Len(OccurrencesOf(id, resp.result.events)) = 1
          /\ OccurrencesOf(id, resp.result.events)[1].date = events[id].recurrence_start
          /\ OccurrencesNotOf(id, resp.result.events) # <<>>

\* C9: with a label filter, the occurrences returned for an event are those
\* the event has in the window when one of its labels is in the filter, and
\* none when no label of it is (an event without labels included).
C9_LabelFilterIsAny ==
    (TimelineReturned /\ req.label_filter # {}) =>
        \A id \in DOMAIN events :
            OccurrencesOf(id, resp.result.events)
                = IF LabelsOf(event_labels, id) \cap req.label_filter # {}
                  THEN EventOccurrences(events[id], LabelsOf(event_labels, id),
                                        WindowStart, WindowEnd).occurrences
                  ELSE <<>>

\* filter {fixed, other}: an event labelled {rent, fixed} is returned, an event
\* without labels dated in the window is not
C9_Witness ==
    /\ TimelineReturned
    /\ req.label_filter = {"fixed", "other"}
    /\ \E id \in DOMAIN events :
          /\ LabelsOf(event_labels, id) = {"rent", "fixed"}
          /\ OccurrencesOf(id, resp.result.events) # <<>>
    /\ \E id \in DOMAIN events :
          /\ LabelsOf(event_labels, id) = {}
          /\ ~events[id].is_recurring
          /\ events[id].event_date # NoneStr
          /\ NotAfter(WindowStart, FromIsoFormat(events[id].event_date))
          /\ NotAfter(FromIsoFormat(events[id].event_date), WindowEnd)
          /\ OccurrencesOf(id, resp.result.events) = <<>>

\* C10: every stored event has exactly one of: eventDate set; isRecurring with
\* recurrenceStart set.
C10_ExactlyOneDateSource ==
    \A id \in DOMAIN events :
        (events[id].event_date # NoneStr)
            # (events[id].is_recurring /\ events[id].recurrence_start # NoneStr)

\* the rows of the table account_events that carry label l
EventsLabelled(l) == {id \in DOMAIN events : l \in LabelsOf(event_labels, id)}

\* C12: no label row is left for an id that has no event: the labels
\* get_all_labels reports are labels of events that exist, the count
\* get_labels_with_counts reports for a label is the number of existing
\* events carrying it, and an id the table does not hold (the next add_event
\* may be given it) has no labels waiting.
C12_NoLabelsOfDeletedEvents ==
    /\ \A id \in 1..MaxEvents : id \notin DOMAIN events => LabelsOf(event_labels, id) = {}
    /\ \A l \in GetAllLabels(event_labels) :
          GetLabelsWithCounts(event_labels)[l] = Cardinality(EventsLabelled(l))

\* the dates of a list of occurrences strictly ascending
StrictlyIncreasing(occs) ==
    \A i \in 1..(Len(occs) - 1) :
        Before(FromIsoFormat(occs[i].date), FromIsoFormat(occs[i + 1].date))

\* the call has a pattern the if/elif chain knows, recurrenceInterval >= 1
\* and a valid window
LoopPre ==
    /\ exp_event.recurrence_pattern \in KnownPatterns
    /\ exp_event.recurrence_interval >= 1
    /\ NotAfter(exp_window.start_date, exp_window.end_date)

\* the pass about to run advances the cursor
Advancing ==
    \/ /\ exp_loop.pc = "fast_forward"
       /\ FastForwardContinues(exp_loop.current, exp_window.start_date, LoopRecEnd)
    \/ /\ exp_loop.pc = "emit"
       /\ EmitContinues(exp_loop.current, LoopRecEnd, exp_window.end_date)

LoopReturned ==
    /\ exp_loop.pc = "done"
    /\ Before(EffectiveEnd(exp_event, exp_window.end_date), exp_loop.current)

\* C11: for a recognized pattern, recurrenceInterval >= 1 and a valid window,
\* every pass of either loop that advances the cursor moves it to a strictly
\* later date, the occurrences gathered are at every moment in strictly
\* increasing date order, and the call comes to return, its cursor past
\* effectiveEnd.
C11_ExpansionTerminates ==
    /\ [][(LoopPre /\ Advancing) => Before(exp_loop.current, exp_loop'.current)]_vars
    /\ [](LoopPre => StrictlyIncreasing(exp_loop.occurrences))
    /\ (LoopPre ~> LoopReturned)

\* a monthly event that started before the window: the first loop advanced
\* the cursor, the second gathered several occurrences, the call returned
C11_Witness ==
    /\ LoopPre
    /\ LoopReturned
    /\ exp_event.recurrence_pattern = "monthly"
    /\ Before(FromIsoFormat(exp_event.recurrence_start), exp_window.start_date)
    /\ Len(exp_loop.occurrences) >= 2

====
